---- MODULE Spec2Model ----
(***************************************************************************)
(* Model of the MiniDecider screens.                                       *)
(*                                                                         *)
(*   - pickIndex (app/(tabs)/index.js and app/details/[id].js, 29-35) as   *)
(*     an operator over exact arithmetic: angles are whole degrees, and    *)
(*     every quantity that the code divides by n is kept multiplied by n,  *)
(*     so seg = 360/n and seg/2 = 180/n lose nothing.                      *)
(*   - the spin screens (MainSpinWheelScreen, WheelDetailScreen) as a      *)
(*     state machine: spinWheel, the Animated.timing completion callback,  *)
(*     resetWheel, and the wheel being replaced by an edit.                *)
(*                                                                         *)
(*   - the random number screen (RandomNumberScreen, app/create.js         *)
(*     586-925): the settings sheet and generateNumbers, whose retry loop  *)
(*     is stepped one draw at a time.                                      *)
(*   - the coin screen (app/(tabs)/coin.js): flipCoin, the flip            *)
(*     animation's completion and resetStats.                              *)
(*   - the wheel list of AppContext (addWheel, updateWheel, deleteWheel,   *)
(*     ensurePresetWheels, addSpinResult) with the screens of the Stack.   *)
(*   - the option editors: addOption, removeOption, updateOption, batch    *)
(*     add, preset loading, the weight buttons and the save handlers.      *)
(*                                                                         *)
(* The specifications share the variables; each holds the others' fixed:   *)
(*   PickSpec  draws (finalDeg, n, baseOffsetDeg, k) and applies pickIndex *)
(*   Spec      runs a spin screen; LiveSpec adds the animation's fairness  *)
(*   OddsSpec  ends one spin at the same angle on two wheels that differ   *)
(*             only in their options' weights                              *)
(*   DrawSpec  runs generateNumbers on a drawn configuration, one draw of  *)
(*             the retry loop per step; LiveDrawSpec adds the fairness of  *)
(*             the timer and of the running callback                       *)
(*   RngSpec   runs the number screen from the default configuration       *)
(*   CoinSpec  runs the coin screen                                        *)
(*   AppSpec   runs the wheel list of AppContext under the stacked spin,   *)
(*             my-wheels, details and edit screens; StalePressSpec adds    *)
(*             presses handled before the screen has re-rendered           *)
(*   EditorSpec runs the option editors of the create screen, the edit     *)
(*             screen and the bottom sheet; WeightSpec presses their       *)
(*             weight buttons                                              *)
(***************************************************************************)
EXTENDS Integers, Sequences, FiniteSets, TLC

VARIABLES
    \* ---- spin screen (index.js 41-46, [id].js 42-46) ----
    screen,         \* "index" | "details": which screen is mounted
    currentWheel,   \* useState currentWheel / wheel
    isSpinning,     \* useState isSpinning
    currentResult,  \* useState currentResult
    rotation,       \* rotationAnim value, degrees
    animating,      \* an Animated.timing on rotationAnim is running
    closure,        \* what the running/last spinWheel call captured
    alert,          \* Alert.alert dialog on screen ("" = none)
    spinResults,    \* AppContext spinResults, newest first
    spinsStarted,   \* number of accepted spins (bounds the run)
    edits,          \* number of wheel replacements (bounds the run)
    lastEvent,      \* log: what the last handler did
    \* ---- pickIndex harness ----
    argFinalDeg, argN, argBaseOffsetDeg, argK, retIdx, retIdxShifted, phase,
    \* ---- two wheels that differ only in weights ----
    wheelA, wheelB, \* the two wheels
    sharedDeg,      \* the final rotation both spins end at
    winnerA, winnerB, \* id of the option onSpinEnd selects on each (0 = none yet)
    oddsPhase,      \* "idle" | "args" | "spun"
    \* ---- random number screen (create.js 586-592, AppContext.js 394) ----
    rngConfig,      \* AppContext rngConfig
    tempConfig,     \* useState tempConfig
    showSettings,   \* useState showSettings
    isGenerating,   \* useState isGenerating
    rngCurrentResult, \* useState currentResult of the number screen
    genClosure,     \* rngConfig as captured by the pending generateNumbers call
    timerPending,   \* the 800 ms setTimeout has not fired yet
    rngAlert,       \* Alert.alert dialog of the number screen ("" = none)
    rngEvent,       \* log: what the last handler of the number screen did
    rngSteps,       \* number of saves and generations (bounds the run)
    \* ---- the setTimeout callback of generateNumbers, while it runs ----
    genPc,          \* "idle" | "loop" (inside for / do-while)
    genResults,     \* const results
    attempts,       \* let attempts
    randomNum,      \* let randomNum (0 before the first draw)
    \* ---- coin screen (coin.js 35-37, AppContext.js 395) ----
    coinStats,      \* AppContext coinStats
    isFlipping,     \* useState isFlipping
    currentSide,    \* useState currentSide
    flipAnim,       \* the withTiming animation on flipRotation, what its callback
                    \* captured, and whether handleFlipComplete is queued for the JS thread
    coinAlert,      \* the reset confirmation dialog is open
    coinEvent,      \* log: what the last handler of the coin screen did
    flipsStarted,   \* number of accepted flips (bounds the run)
    \* ---- AppContext and the screens stacked over it (AppContext.js 392-398) ----
    wheels,         \* AppContext wheels
    currentWheelId, \* AppContext currentWheelId
    ctxSpinResults, \* AppContext spinResults, shared by the mounted spin screens
    stack,          \* the navigation stack, bottom first (_layout.js 11-19)
    detailsId,      \* route parameter of the mounted details screen ("" = not mounted)
    spinning,       \* per spin screen: useState isSpinning
    rendered,       \* per spin screen: what the handlers of its last render closed over
    running,        \* per spin screen: the closure of the running Animated.timing
    completedSpins, \* log: every spin whose onSpinEnd has run, newest first
    clock,          \* Date.now(), counted in writes
    appSpins,       \* number of spins started (bounds the run)
    wheelSaves,     \* number of addWheel/updateWheel/deleteWheel calls by the user
    appEvent,       \* log: what the last handler did, and to which wheel
    \* ---- the option editors (create.js 79-87, part_001 32-38,
    \*      EditWheelBottomSheet.js 50-59) ----
    editorKind,     \* "none" | "create" | "edit" | "sheet": the editor that is open
    draftOptions,   \* useState options of the open editor
    storedOptions,  \* the options of the wheel last handed to addWheel/updateWheel
    msClock,        \* milliseconds gone by since the editors' first Date.now()
    editorEvent,    \* log: what the last handler of an editor did
    editorSteps     \* number of handler calls (bounds the run)

screenVars == <<screen, currentWheel, isSpinning, currentResult, rotation,
                animating, closure, alert, spinResults, spinsStarted, edits,
                lastEvent>>
pickVars == <<argFinalDeg, argN, argBaseOffsetDeg, argK, retIdx, retIdxShifted, phase>>
oddsVars == <<wheelA, wheelB, sharedDeg, winnerA, winnerB, oddsPhase>>
rngVars == <<rngConfig, tempConfig, showSettings, isGenerating, rngCurrentResult,
             genClosure, timerPending, rngAlert, rngEvent, rngSteps>>
loopVars == <<genPc, genResults, attempts, randomNum>>
coinVars == <<coinStats, isFlipping, currentSide, flipAnim, coinAlert, coinEvent,
              flipsStarted>>
appVars == <<wheels, currentWheelId, ctxSpinResults, stack, detailsId, spinning,
             rendered, running, completedSpins, clock, appSpins, wheelSaves,
             appEvent>>
\* Everything outside the spin screens and the pickIndex harness
editorVars == <<editorKind, draftOptions, storedOptions, msClock, editorEvent,
                editorSteps>>
toolVars == <<oddsVars, rngVars, loopVars, coinVars, appVars, editorVars>>
vars == <<screen, currentWheel, isSpinning, currentResult, rotation,
          animating, closure, alert, spinResults, spinsStarted, edits,
          lastEvent,
          argFinalDeg, argN, argBaseOffsetDeg, argK, retIdx, retIdxShifted, phase,
          wheelA, wheelB, sharedDeg, winnerA, winnerB, oddsPhase,
          rngConfig, tempConfig, showSettings, isGenerating, rngCurrentResult,
          genClosure, timerPending, rngAlert, rngEvent, rngSteps,
          genPc, genResults, attempts, randomNum,
          coinStats, isFlipping, currentSide, flipAnim, coinAlert, coinEvent,
          flipsStarted,
          wheels, currentWheelId, ctxSpinResults, stack, detailsId, spinning,
          rendered, running, completedSpins, clock, appSpins, wheelSaves,
          appEvent,
          editorKind, draftOptions, storedOptions, msClock, editorEvent,
          editorSteps>>

----------------------------------------------------------------------------
\* Bounds of the model

MaxOptions == 13
MaxDisabled == 2
MaxSpins == 2
MaxEdits == 1
MaxAngle == 400
MaxShift == 2

\* Inputs drawn for the random source and for pickIndex's baseOffsetDeg
StopAngles == {0, 200, 359}
ExtraTurns == {0, 2}
BaseOffsets == {-45, 0, 90}

----------------------------------------------------------------------------
\* Program constants

FullTurn == 360
PointerBiasDeg == -15
MinTurns == 5
DefaultWeight == 50
HistoryCap == 100
Unknown == "???"
NoAlert == ""
NoOptionsAlert == "No Options"
WheelId == "preset-what-to-eat"

LabelNames == <<"Pizza", "Burger", "Pasta", "Sushi", "Steak", "Salad",
                "Chicken stir-fry", "Roast Beef", "Tacos", "Fish and chips",
                "BBQ Ribs">>

LabelOf(i) == LabelNames[((i - 1) % Len(LabelNames)) + 1]

----------------------------------------------------------------------------
\* pickIndex

\* The JavaScript % operator: the result takes the sign of the dividend.
JsRem(x, m) == IF x >= 0 THEN x % m ELSE -((-x) % m)

\* Math.floor(x / d) for d > 0.
MathFloorDiv(x, d) == x \div d

\* const norm = ((finalDeg % 360) + 360) % 360
NormNoWrap(finalDeg) == finalDeg

Norm(finalDeg) == JsRem(JsRem(finalDeg, FullTurn) + FullTurn, FullTurn)

\* n * a, with a = (baseOffsetDeg + pointerBiasDeg + seg/2 - norm) % 360,
\* the `+ 360` forgotten
ScaledANoTurn(finalDeg, n, baseOffsetDeg) ==
    JsRem((baseOffsetDeg + PointerBiasDeg) * n + (FullTurn \div 2)
            - Norm(finalDeg) * n,
          FullTurn * n)

\* n * a, where a = (baseOffsetDeg + pointerBiasDeg + seg/2 - norm + 360) % 360
\* (n * (x % 360) = (n * x) % (n * 360) for the truncating remainder)
ScaledA(finalDeg, n, baseOffsetDeg) ==
    JsRem((baseOffsetDeg + PointerBiasDeg) * n + (FullTurn \div 2)
            - Norm(finalDeg) * n + FullTurn * n,
          FullTurn * n)

\* Math.floor(a / seg) = floor((n * a) / 360).  With n = 0 the code computes
\* seg = Infinity and a = NaN, and returns NaN, which indexes no element:
\* -1 stands for it here.
pickIndex(finalDeg, n, baseOffsetDeg) ==
    IF n = 0 THEN -1
    ELSE MathFloorDiv(ScaledA(finalDeg, n, baseOffsetDeg), FullTurn)

----------------------------------------------------------------------------
\* pickIndex harness: draw the arguments, then apply the function

PickInit ==
    /\ argFinalDeg \in (-MaxAngle)..MaxAngle
    /\ argN \in 1..MaxOptions
    /\ argBaseOffsetDeg \in BaseOffsets
    /\ argK \in (-MaxShift)..MaxShift
    /\ retIdx = -1
    /\ retIdxShifted = -1
    /\ phase = "args"

PickIdle ==
    /\ argFinalDeg = 0
    /\ argN = 1
    /\ argBaseOffsetDeg = 0
    /\ argK = 0
    /\ retIdx = -1
    /\ retIdxShifted = -1
    /\ phase = "idle"

CallPickIndex ==
    /\ phase = "args"
    /\ retIdx' = pickIndex(argFinalDeg, argN, argBaseOffsetDeg)
    /\ retIdxShifted' = pickIndex(argFinalDeg + FullTurn * argK, argN, argBaseOffsetDeg)
    /\ phase' = "returned"
    /\ UNCHANGED <<argFinalDeg, argN, argBaseOffsetDeg, argK>>
    /\ UNCHANGED <<screenVars, toolVars>>

----------------------------------------------------------------------------
\* Wheels

Option(i, isEnabled) ==
    [id |-> i, label |-> LabelOf(i), weight |-> DefaultWeight, enabled |-> isEnabled]

\* A stored wheel: total options, the first `disabled` of them switched off.
\* Every save keeps at least 2 labelled options (handleSave, handleSubmit);
\* the bottom sheet's removeOption and handleSave never look at `enabled`,
\* so a stored wheel can have 0 or 1 enabled options.
Wheel(total, disabled) ==
    [id |-> WheelId, options |-> [i \in 1..total |-> Option(i, i > disabled)]]

OptionCounts == {2, 3, MaxOptions}

Wheels ==
    {Wheel(total, disabled) : total \in OptionCounts, disabled \in 0..MaxDisabled}

\* options.filter(opt => opt.enabled), ignoring the flag
AllOptions(options) == options

\* options.filter(opt => opt.enabled)
EnabledOptions(options) == SelectSeq(options, LAMBDA opt : opt.enabled)

NoClosure == [wheel |-> Wheel(0, 0), enabledOptions |-> <<>>, finalRotation |-> 0,
              spinResults |-> <<>>, live |-> FALSE]

----------------------------------------------------------------------------
\* Initial values of the other screens

\* DEFAULT_RNG_CONFIG
DefaultRngConfig ==
    [min |-> 1, max |-> 100, count |-> 1, allowDuplicates |-> TRUE, lastResults |-> <<>>]

\* DEFAULT_COIN_STATS (lastFlippedAt, a timestamp, is left out)
DefaultCoinStats == [heads |-> 0, tails |-> 0, lastResult |-> "null"]

\* No withTiming animation is running on flipRotation
NoFlip == [phase |-> "none", willBeHeads |-> FALSE, coinStats |-> DefaultCoinStats]

OddsIdle ==
    /\ wheelA = Wheel(1, 0)
    /\ wheelB = Wheel(1, 0)
    /\ sharedDeg = 0
    /\ winnerA = 0
    /\ winnerB = 0
    /\ oddsPhase = "idle"

\* RandomNumberScreen just mounted: currentResult = rngConfig.lastResults,
\* tempConfig = rngConfig, nothing pending.
RngMounted ==
    /\ tempConfig = rngConfig
    /\ showSettings = FALSE
    /\ isGenerating = FALSE
    /\ rngCurrentResult = rngConfig.lastResults
    /\ genClosure = rngConfig
    /\ timerPending = FALSE
    /\ rngAlert = NoAlert
    /\ rngEvent = "mounted"
    /\ rngSteps = 0

\* The setTimeout callback is not running
LoopIdle ==
    /\ genPc = "idle"
    /\ genResults = <<>>
    /\ attempts = 0
    /\ randomNum = 0

CoinMounted ==
    /\ coinStats = DefaultCoinStats
    /\ isFlipping = FALSE
    /\ currentSide = "heads"
    /\ flipAnim = NoFlip
    /\ coinAlert = FALSE
    /\ coinEvent = "mounted"
    /\ flipsStarted = 0

\* The spin screens that can be mounted at once: the index tab stays mounted
\* under a pushed details screen (_layout.js 11-19).
SpinScreens == {"index", "details"}

\* A wheel of the list, as far as the list operations tell wheels apart: its
\* id, the number of saved edits of its name and options, and updatedAt.
PresetWheel(id) == [id |-> id, rev |-> 0, updatedAt |-> 0]

\* PRESET_WHEELS: its first two entries (the others are handled alike)
PRESET_WHEELS == <<PresetWheel("preset-what-to-eat"), PresetWheel("preset-yes-no")>>

\* useState('preset-what-to-eat'), and what deleteWheel resets to
DefaultWheelId == "preset-what-to-eat"

\* Date.now().toString() of a duplicated wheel
UserWheelIds == {"1700000000000"}

WheelIds(ws) == {ws[i].id : i \in DOMAIN ws}

\* wheels.find(w => w.id === id): the first match
FindWheel(ws, id) ==
    ws[CHOOSE i \in DOMAIN ws :
          /\ ws[i].id = id
          /\ \A j \in DOMAIN ws : ws[j].id = id => i <= j]

\* ensurePresetWheels, run by the effect on [isLoading, wheels] after every
\* change of the list: [...wheels, ...missingPresets]
ensurePresetWheels(ws) ==
    ws \o SelectSeq(PRESET_WHEELS, LAMBDA preset : preset.id \notin WheelIds(ws))

\* addWheel: [...wheels, wheel]
addWheel(wheel, ws) == ws \o <<wheel>>

\* updateWheel: wheels.map(wheel => wheel.id === updatedWheel.id ? updatedWheel : wheel)
updateWheel(updatedWheel, ws) ==
    [i \in DOMAIN ws |-> IF ws[i].id = updatedWheel.id THEN updatedWheel ELSE ws[i]]

\* deleteWheel: wheels.filter(wheel => wheel.id !== wheelId)
deleteWheel(wheelId, ws) == SelectSeq(ws, LAMBDA wheel : wheel.id # wheelId)

\* No animation is running on the screen's rotationAnim
NoSpin == [id |-> 0, screen |-> "", spinResults |-> <<>>, wheels |-> <<>>,
           wheel |-> PresetWheel("")]

\* A spin result loaded from storage; k = 1 is the newest
StoredSpin(k) == [id |-> 0 - k, screen |-> "index"]

\* What the handlers of a screen close over once React has committed the
\* current state: isSpinning, and the context's addSpinResult and updateWheel
\* with the spinResults and wheels of that render.
Snapshot(isSpinningOf, results, ws) ==
    ("index" :> [isSpinning |-> isSpinningOf["index"], spinResults |-> results,
                 wheels |-> ws])
    @@ ("details" :> [isSpinning |-> isSpinningOf["details"], spinResults |-> results,
                      wheels |-> ws])

Committed == Snapshot(spinning, ctxSpinResults, wheels)

\* The app after loadAppData, with a stored history of n spins; the index
\* tab alone is mounted.
AppMounted(n) ==
    /\ wheels = PRESET_WHEELS
    /\ currentWheelId = DefaultWheelId
    /\ ctxSpinResults = [k \in 1..n |-> StoredSpin(k)]
    /\ stack = <<"index">>
    /\ detailsId = ""
    /\ spinning = [s \in SpinScreens |-> FALSE]
    /\ rendered = [s \in SpinScreens |->
                      [isSpinning |-> FALSE,
                       spinResults |-> [k \in 1..n |-> StoredSpin(k)],
                       wheels |-> PRESET_WHEELS]]
    /\ running = [s \in SpinScreens |-> NoSpin]
    /\ completedSpins = [k \in 1..n |-> StoredSpin(k)]
    /\ clock = 0
    /\ appSpins = 0
    /\ wheelSaves = 0
    /\ appEvent = [kind |-> "mounted", id |-> ""]

\* A new option of an editor: label '', weight 50, enabled (the colour is
\* left out)
NewOption(id) == [id |-> id, label |-> "", weight |-> DefaultWeight, enabled |-> TRUE]

\* The two empty options a new wheel starts with: ids '1' and '2'.  Ids are
\* decimal strings; the model keeps the numbers they spell.
BlankPair == <<NewOption(1), NewOption(2)>>

\* The options of the stored wheel preset-yes-no
YesNoOptions == <<[NewOption(1) EXCEPT !.label = "Yes"], [NewOption(2) EXCEPT !.label = "No"]>>

\* No editor is open; the wheel last stored is the preset preset-yes-no.
EditorsClosed ==
    /\ editorKind = "none"
    /\ draftOptions = <<>>
    /\ storedOptions = YesNoOptions
    /\ msClock = 0
    /\ editorEvent = "closed"
    /\ editorSteps = 0

ToolsIdle ==
    /\ OddsIdle
    /\ rngConfig = DefaultRngConfig
    /\ RngMounted
    /\ LoopIdle
    /\ CoinMounted
    /\ AppMounted(0)
    /\ EditorsClosed

----------------------------------------------------------------------------
\* The spin screen

Init ==
    /\ screen \in {"index", "details"}
    /\ currentWheel \in Wheels
    /\ isSpinning = FALSE
    /\ currentResult = Unknown
    /\ rotation = 0
    /\ animating = FALSE
    /\ closure = NoClosure
    /\ alert = NoAlert
    /\ spinResults = <<>>
    /\ spinsStarted = 0
    /\ edits = 0
    /\ lastEvent = "mounted"
    /\ PickIdle
    /\ ToolsIdle

\* if (enabledOptions.length === 0) return;   -- never
NeverRejected(enabledOptions) == FALSE

\* if (enabledOptions.length === 0) return;
SpinRejected(enabledOptions) == Len(enabledOptions) = 0

\* finalRotation = currentRotation + fullRotations * 360 + randomStopAngle
FinalRotation(currentValue, fullRotations, randomStopAngle) ==
    JsRem(currentValue, FullTurn) + fullRotations * FullTurn + randomStopAngle

\* addSpinResult: [result, ...spinResults].slice(0, 100)
AddSpinResult(result, results) ==
    SubSeq(<<result>> \o results, 1,
           IF Len(results) + 1 > HistoryCap THEN HistoryCap ELSE Len(results) + 1)

\* spinWheel, pressed while isSpinning: returns at once.
SpinWheelIgnored ==
    /\ isSpinning
    /\ lastEvent' = "spin_ignored"
    /\ UNCHANGED <<screen, currentWheel, isSpinning, currentResult, rotation,
                   animating, closure, alert, spinResults, spinsStarted, edits>>

\* spinWheel with no enabled option: returns (the details screen alerts).
SpinWheelRejected ==
    /\ ~isSpinning
    /\ SpinRejected(EnabledOptions(currentWheel.options))
    /\ alert' = IF screen = "details" THEN NoOptionsAlert ELSE alert
    /\ lastEvent' = "spin_rejected"
    /\ UNCHANGED <<screen, currentWheel, isSpinning, currentResult, rotation,
                   animating, closure, spinResults, spinsStarted, edits>>

\* spinWheel accepted: state set, final rotation drawn, animation started.
SpinWheelStarted ==
    /\ ~isSpinning
    /\ ~SpinRejected(EnabledOptions(currentWheel.options))
    /\ spinsStarted < MaxSpins
    /\ \E extraTurns \in ExtraTurns, randomStopAngle \in StopAngles :
          closure' = [wheel |-> currentWheel,
                      enabledOptions |-> EnabledOptions(currentWheel.options),
                      finalRotation |-> FinalRotation(rotation, MinTurns + extraTurns,
                                                      randomStopAngle),
                      spinResults |-> spinResults,
                      live |-> TRUE]
    /\ isSpinning' = TRUE
    /\ currentResult' = Unknown
    /\ animating' = TRUE
    /\ spinsStarted' = spinsStarted + 1
    /\ lastEvent' = "spin_started"
    /\ UNCHANGED <<screen, currentWheel, rotation, alert, spinResults, edits>>

SpinWheel == SpinWheelIgnored \/ SpinWheelRejected \/ SpinWheelStarted

\* onSpinEnd(finalDeg): idx and the option it selects
SpinEndIdx == pickIndex(closure.finalRotation, Len(closure.enabledOptions), 0)

\* enabledOptions[idx] is undefined: selectedOption.label throws a TypeError
SpinEndThrows == SpinEndIdx \notin 0..(Len(closure.enabledOptions) - 1)

SelectedOption == closure.enabledOptions[SpinEndIdx + 1]

SpinRecord(selectedOption) ==
    [wheelId |-> closure.wheel.id, winnerOptionId |-> selectedOption.id]

\* The animation runs to its end: the wheel rests at toValue and the start
\* callback calls onSpinEnd(finalRotation).
AnimationEnd ==
    /\ animating
    /\ animating' = FALSE
    /\ rotation' = closure.finalRotation
    /\ IF SpinEndThrows
         THEN /\ lastEvent' = "spin_end_threw"
              /\ UNCHANGED <<isSpinning, currentResult, spinResults>>
         ELSE /\ currentResult' = SelectedOption.label
              /\ isSpinning' = FALSE
              /\ spinResults' = AddSpinResult(SpinRecord(SelectedOption),
                                              closure.spinResults)
              /\ lastEvent' = "spin_ended"
    /\ UNCHANGED <<screen, currentWheel, closure, alert, spinsStarted, edits>>

\* resetWheel.  rotationAnim.setValue(0) first stops a running animation,
\* which calls its start callback ({finished: false}) and so onSpinEnd with
\* the planned finalRotation; then the value becomes 0 and the result '???'.
\* If onSpinEnd throws, the exception leaves setValue before the value is set.
ResetWheel ==
    /\ IF animating
         THEN /\ animating' = FALSE
              /\ IF SpinEndThrows
                   THEN /\ lastEvent' = "spin_end_threw"
                        /\ UNCHANGED <<isSpinning, currentResult, spinResults, rotation>>
                   ELSE /\ isSpinning' = FALSE
                        /\ spinResults' = AddSpinResult(SpinRecord(SelectedOption),
                                                        closure.spinResults)
                        /\ rotation' = 0
                        /\ currentResult' = Unknown
                        /\ lastEvent' = "reset_during_spin"
         ELSE /\ rotation' = 0
              /\ currentResult' = Unknown
              /\ lastEvent' = "reset"
              /\ UNCHANGED <<animating, isSpinning, spinResults>>
    /\ UNCHANGED <<screen, currentWheel, closure, alert, spinsStarted, edits>>

\* The screen's wheel is replaced: handleEditSave (index.js) or the effect on
\* `wheels` (details) after an edit was saved.
WheelChanged ==
    /\ edits < MaxEdits
    /\ \E w \in Wheels :
          /\ w # currentWheel
          /\ currentWheel' = w
    /\ edits' = edits + 1
    /\ lastEvent' = "wheel_changed"
    /\ UNCHANGED <<screen, isSpinning, currentResult, rotation, animating,
                   closure, alert, spinResults, spinsStarted>>

\* The user dismisses the alert.
DismissAlert ==
    /\ alert # NoAlert
    /\ alert' = NoAlert
    /\ lastEvent' = "alert_dismissed"
    /\ UNCHANGED <<screen, currentWheel, isSpinning, currentResult, rotation,
                   animating, closure, spinResults, spinsStarted, edits>>

Next ==
    \/ (SpinWheelIgnored /\ UNCHANGED <<pickVars, toolVars>>)
    \/ (SpinWheelRejected /\ UNCHANGED <<pickVars, toolVars>>)
    \/ (SpinWheelStarted /\ UNCHANGED <<pickVars, toolVars>>)
    \/ (AnimationEnd /\ UNCHANGED <<pickVars, toolVars>>)
    \/ (ResetWheel /\ UNCHANGED <<pickVars, toolVars>>)
    \/ (WheelChanged /\ UNCHANGED <<pickVars, toolVars>>)
    \/ (DismissAlert /\ UNCHANGED <<pickVars, toolVars>>)

Spec == Init /\ [][Next]_vars

\* The animation engine always brings a started timing animation to its end.
LiveSpec == Init /\ [][Next]_vars /\ WF_vars(AnimationEnd /\ UNCHANGED <<pickVars, toolVars>>)

----------------------------------------------------------------------------
\* The pickIndex specification

PickSpecInit ==
    /\ screen = "index"
    /\ currentWheel = Wheel(2, 0)
    /\ isSpinning = FALSE
    /\ currentResult = Unknown
    /\ rotation = 0
    /\ animating = FALSE
    /\ closure = NoClosure
    /\ alert = NoAlert
    /\ spinResults = <<>>
    /\ spinsStarted = 0
    /\ edits = 0
    /\ lastEvent = "mounted"
    /\ PickInit
    /\ ToolsIdle

PickNext == CallPickIndex

PickSpec == PickSpecInit /\ [][PickNext]_vars

----------------------------------------------------------------------------
\* Two wheels that differ only in their options' weights

MaxWeighted == 2

\* Weights the adjuster reaches from 50 in steps of 10
WeightChoices == {40, 50, 80}

\* A wheel of Len(weights) options, the first `disabled` of them switched off
WeightedWheel(weights, disabled) ==
    [id |-> WheelId,
     options |-> [i \in 1..Len(weights) |->
                     [Option(i, i > disabled) EXCEPT !.weight = weights[i]]]]

RECURSIVE SumWeights(_)
\* options.reduce((sum, opt) => sum + opt.weight, 0)
SumWeights(options) ==
    IF options = <<>> THEN 0
    ELSE Head(options).weight + SumWeights(Tail(options))

\* A winner taken in proportion to the weights: option k owns the angles
\* from 360 * (weights before k) / sum to 360 * (weights up to k) / sum.
SpinWinnerWeighted(enabledOptions, finalDeg) ==
    LET sum == SumWeights(enabledOptions)
        hit == {k \in 1..Len(enabledOptions) :
                   /\ FullTurn * SumWeights(SubSeq(enabledOptions, 1, k - 1))
                         <= Norm(finalDeg) * sum
                   /\ Norm(finalDeg) * sum
                         < FullTurn * SumWeights(SubSeq(enabledOptions, 1, k))}
    IN  IF hit = {} THEN 0 ELSE enabledOptions[CHOOSE k \in hit : TRUE].id

\* onSpinEnd: the id of enabledOptions[pickIndex(finalDeg, n, 0)]
\* (0 when that element is undefined)
SpinWinner(enabledOptions, finalDeg) ==
    LET idx == pickIndex(finalDeg, Len(enabledOptions), 0)
    IN  IF idx \in 0..(Len(enabledOptions) - 1) THEN enabledOptions[idx + 1].id ELSE 0

\* createWheelPath: n * startAngle and n * endAngle of slice `index` (from 0)
\* of n, in degrees
SliceStartScaled(index, n) == index * FullTurn - 90 * n

SliceEndScaled(index, n) == (index + 1) * FullTurn - 90 * n

OddsInit ==
    /\ \E total \in 1..MaxWeighted :
         \E disabled \in {0, 1} :
            /\ disabled < total
            /\ \E weightsA \in [1..total -> WeightChoices],
                  weightsB \in [1..total -> WeightChoices] :
                  /\ wheelA = WeightedWheel(weightsA, disabled)
                  /\ wheelB = WeightedWheel(weightsB, disabled)
    /\ sharedDeg \in 0..(FullTurn - 1)
    /\ winnerA = 0
    /\ winnerB = 0
    /\ oddsPhase = "args"

\* The spin of each wheel ends at sharedDeg
SpinBoth ==
    /\ oddsPhase = "args"
    /\ winnerA' = SpinWinner(EnabledOptions(wheelA.options), sharedDeg)
    /\ winnerB' = SpinWinner(EnabledOptions(wheelB.options), sharedDeg)
    /\ oddsPhase' = "spun"
    /\ UNCHANGED <<wheelA, wheelB, sharedDeg>>
    /\ UNCHANGED <<screenVars, pickVars, rngVars, loopVars, coinVars, appVars, editorVars>>

\* The spin screen just mounted on the first preset wheel
SpinScreenIdle ==
    /\ screen = "index"
    /\ currentWheel = Wheel(2, 0)
    /\ isSpinning = FALSE
    /\ currentResult = Unknown
    /\ rotation = 0
    /\ animating = FALSE
    /\ closure = NoClosure
    /\ alert = NoAlert
    /\ spinResults = <<>>
    /\ spinsStarted = 0
    /\ edits = 0
    /\ lastEvent = "mounted"

OddsSpecInit ==
    /\ SpinScreenIdle
    /\ PickIdle
    /\ OddsInit
    /\ rngConfig = DefaultRngConfig
    /\ RngMounted
    /\ LoopIdle
    /\ CoinMounted
    /\ AppMounted(0)
    /\ EditorsClosed

OddsNext == SpinBoth

OddsSpec == OddsSpecInit /\ [][OddsNext]_vars

----------------------------------------------------------------------------
\* The random number screen

MaxCount == 3
RandomGrain == 4
MaxRngSteps == 2

\* if (attempts > 1000) break
RetryCap == 1000
\* if (finalConfig.count > 20) finalConfig.count = 20; Math.min(20, ...)
MaxAllowedCount == 20

InvalidConfigurationAlert == "Invalid Configuration"
SwappedAlert == "Swapped min/max"
InvalidCountAlert == "Invalid Count"
CountLimitedAlert == "Count Limited"
CountExceedsAlert == "Count Exceeds Unique Values"

nonRngVars == <<screenVars, pickVars, oddsVars, coinVars, appVars, editorVars>>

\* rngConfig.max - rngConfig.min + 1
Span(cfg) == cfg.max - cfg.min + 1

\* Math.random() returns k / RandomGrain for some k in 0..RandomGrain-1
RandomDraws == 0..(RandomGrain - 1)

\* Math.floor(Math.random() * (max - min + 1)), the `+ min` forgotten
DrawNoOffset(k, cfg) == (k * Span(cfg)) \div RandomGrain

\* Math.floor(Math.random() * (max - min + 1)) + min, Math.random() = k / RandomGrain
DrawValue(k, cfg) == ((k * Span(cfg)) \div RandomGrain) + cfg.min

\* generateNumbers' guard, never taken
NeverRejectedGeneration(cfg) == FALSE

\* if (rngConfig.count > (max - min + 1) && !rngConfig.allowDuplicates) return
GenerationRejected(cfg) == cfg.count > Span(cfg) /\ ~cfg.allowDuplicates

\* The retry loop without its cap
NoCap(n) == FALSE

\* if (attempts > 1000) break
CapReached(n) == n > RetryCap

\* usedNumbers: the values pushed so far
UsedNumbers(seq) == {seq[i] : i \in DOMAIN seq}

\* generateNumbers.  The Generate button is disabled while isGenerating and
\* covered while the settings sheet is up.  With the guard taken: an alert,
\* nothing else.  Otherwise isGenerating is set and the 800 ms timer armed;
\* the callback closes over this render's rngConfig.
GenerateNumbers ==
    /\ ~showSettings
    /\ ~isGenerating
    /\ rngSteps' = rngSteps + 1
    /\ IF GenerationRejected(rngConfig)
         THEN /\ rngAlert' = InvalidConfigurationAlert
              /\ rngEvent' = "generate_rejected"
              /\ UNCHANGED <<isGenerating, genClosure, timerPending>>
         ELSE /\ isGenerating' = TRUE
              /\ genClosure' = rngConfig
              /\ timerPending' = TRUE
              /\ rngEvent' = "generate_started"
              /\ UNCHANGED rngAlert
    /\ UNCHANGED <<rngConfig, tempConfig, showSettings, rngCurrentResult>>
    /\ UNCHANGED <<loopVars, nonRngVars>>

\* The timer fires and the callback starts: results = [], usedNumbers = {}.
TimerFires ==
    /\ timerPending
    /\ genPc = "idle"
    /\ timerPending' = FALSE
    /\ genPc' = "loop"
    /\ genResults' = <<>>
    /\ attempts' = 0
    /\ randomNum' = 0
    /\ rngEvent' = "callback_started"
    /\ UNCHANGED <<rngConfig, tempConfig, showSettings, isGenerating,
                   rngCurrentResult, genClosure, rngAlert, rngSteps>>
    /\ UNCHANGED nonRngVars

\* One pass of the do-while body inside the for loop: a draw, attempts++,
\* then break on the cap, or repeat on a used number, or push the number and
\* go to the next i (attempts starts from 0 again).  attempts <= RetryCap
\* holds whenever the body is entered; the guard keeps the counter finite.
DrawOnce ==
    /\ genPc = "loop"
    /\ Len(genResults) < genClosure.count
    /\ attempts <= RetryCap
    /\ \E k \in RandomDraws :
          LET drawn == DrawValue(k, genClosure)
              repeat == /\ ~CapReached(attempts + 1)
                        /\ ~genClosure.allowDuplicates
                        /\ drawn \in UsedNumbers(genResults)
          IN  /\ randomNum' = drawn
              /\ IF repeat
                   THEN /\ attempts' = attempts + 1
                        /\ UNCHANGED genResults
                   ELSE /\ attempts' = 0
                        /\ genResults' = Append(genResults, drawn)
    /\ rngEvent' = "drawing"
    /\ UNCHANGED <<rngConfig, tempConfig, showSettings, isGenerating,
                   rngCurrentResult, genClosure, timerPending, rngAlert, rngSteps,
                   genPc>>
    /\ UNCHANGED nonRngVars

\* updateRngConfig(newConfig): {...rngConfig, ...newConfig}
UpdateRngConfig(newConfig) == newConfig

\* After the for loop: setCurrentResult(results),
\* updateRngConfig({...rngConfig, lastResults: results}) with the captured
\* rngConfig, setIsGenerating(false).
FinishGeneration ==
    /\ genPc = "loop"
    /\ Len(genResults) >= genClosure.count
    /\ rngCurrentResult' = genResults
    /\ rngConfig' = UpdateRngConfig([genClosure EXCEPT !.lastResults = genResults])
    /\ isGenerating' = FALSE
    /\ genPc' = "idle"
    /\ rngEvent' = "generated"
    /\ UNCHANGED <<tempConfig, showSettings, genClosure, timerPending, rngAlert,
                   rngSteps, genResults, attempts, randomNum>>
    /\ UNCHANGED nonRngVars

\* Ranges the settings sheet can store
DrawRanges == {<<1, 1>>, <<1, 2>>, <<-1, 1>>, <<2, 3>>, <<1, 100>>}

\* Configurations generateNumbers is run on.  The settings sheet stores none
\* with duplicates off and count above the range; generateNumbers' own guard
\* is there for those (a configuration restored from storage), so they are
\* drawn too.
DrawConfigs ==
    {[min |-> range[1], max |-> range[2], count |-> count,
      allowDuplicates |-> allowDuplicates, lastResults |-> <<>>] :
        range \in DrawRanges, count \in 1..MaxCount, allowDuplicates \in BOOLEAN}

DrawSpecInit ==
    /\ SpinScreenIdle
    /\ PickIdle
    /\ OddsIdle
    /\ rngConfig \in DrawConfigs
    /\ RngMounted
    /\ LoopIdle
    /\ CoinMounted
    /\ AppMounted(0)
    /\ EditorsClosed

\* One generation request per behaviour
DrawNext ==
    \/ (rngSteps = 0 /\ GenerateNumbers)
    \/ TimerFires
    \/ DrawOnce
    \/ FinishGeneration

DrawSpec == DrawSpecInit /\ [][DrawNext]_vars

\* The timer fires after its delay and the callback, once started, runs on.
LiveDrawSpec ==
    /\ DrawSpecInit
    /\ [][DrawNext]_vars
    /\ WF_vars(TimerFires)
    /\ WF_vars(DrawOnce)
    /\ WF_vars(FinishGeneration)

----------------------------------------------------------------------------
\* The random number screen from the default configuration: the settings
\* sheet, and generateNumbers with its callback taken as one step

\* What the user types into the min, max and count fields (0 also stands
\* for text that parseInt turns into NaN)
TypedMin == {1, 2, 3}
TypedMax == {0, 2}
TypedCount == {0, 2, 25}

\* parseInt(text) || fallback
ParseOr(typed, fallback) == IF typed = 0 THEN fallback ELSE typed

\* Math.min(20, Math.max(1, parseInt(text) || 1))
ClampCount(typed) ==
    LET num == ParseOr(typed, 1)
        atLeastOne == IF num < 1 THEN 1 ELSE num
    IN  IF atLeastOne > MaxAllowedCount THEN MaxAllowedCount ELSE atLeastOne

\* isValidConfig: the Save button is disabled unless it holds
isValidConfig(cfg) ==
    /\ ~(cfg.count <= 0 \/ cfg.count > MaxAllowedCount)
    /\ ~(~cfg.allowDuplicates /\ cfg.count > Span(cfg))

\* validateAndSaveSettings without the exchange of min and max
KeepMinMax(cfg) == cfg

\* if (finalConfig.min > finalConfig.max) exchange them
SwapMinMax(cfg) ==
    IF cfg.min > cfg.max THEN [cfg EXCEPT !.min = cfg.max, !.max = cfg.min] ELSE cfg

\* if (finalConfig.count > 20) finalConfig.count = 20
LimitCount(cfg) ==
    IF cfg.count > MaxAllowedCount THEN [cfg EXCEPT !.count = MaxAllowedCount] ELSE cfg

\* Math.random() at the two ends of its grid
CoarseDraws == {0, RandomGrain - 1}

\* The results the callback can produce for a configuration: count values
\* of the range.  With duplicates off a used value is still produced when
\* the retry cap is reached, so every sequence of drawn values can come out.
PossibleResults(cfg) ==
    [1..cfg.count -> {DrawValue(k, cfg) : k \in CoarseDraws}]

\* handleOpenSettings
OpenSettings ==
    /\ ~showSettings
    /\ tempConfig' = rngConfig
    /\ showSettings' = TRUE
    /\ rngEvent' = "settings_opened"
    /\ UNCHANGED <<rngConfig, isGenerating, rngCurrentResult, genClosure,
                   timerPending, rngAlert, rngSteps>>
    /\ UNCHANGED <<loopVars, nonRngVars>>

\* handleCloseSettings (with unsaved changes: once Discard is chosen)
CloseSettings ==
    /\ showSettings
    /\ showSettings' = FALSE
    /\ rngEvent' = "settings_closed"
    /\ UNCHANGED <<rngConfig, tempConfig, isGenerating, rngCurrentResult,
                   genClosure, timerPending, rngAlert, rngSteps>>
    /\ UNCHANGED <<loopVars, nonRngVars>>

\* The onChangeText / onValueChange handlers of the four fields
UpdateTempConfig ==
    /\ showSettings
    /\ \/ \E typed \in TypedMin : tempConfig' = [tempConfig EXCEPT !.min = ParseOr(typed, 0)]
       \/ \E typed \in TypedMax : tempConfig' = [tempConfig EXCEPT !.max = ParseOr(typed, 100)]
       \/ \E typed \in TypedCount :
             tempConfig' = [tempConfig EXCEPT !.count = ClampCount(typed)]
       \/ \E value \in BOOLEAN : tempConfig' = [tempConfig EXCEPT !.allowDuplicates = value]
    /\ tempConfig' # tempConfig
    /\ rngEvent' = "settings_edited"
    /\ UNCHANGED <<rngConfig, showSettings, isGenerating, rngCurrentResult,
                   genClosure, timerPending, rngAlert, rngSteps>>
    /\ UNCHANGED <<loopVars, nonRngVars>>

\* Save pressed.  While isValidConfig() is false the button is disabled and
\* nothing runs; otherwise validateAndSaveSettings runs.
SaveSettings ==
    /\ showSettings
    /\ rngSteps' = rngSteps + 1
    /\ IF ~isValidConfig(tempConfig)
         THEN /\ rngEvent' = "save_disabled"
              /\ UNCHANGED <<rngConfig, showSettings, rngAlert>>
         ELSE LET swapped == SwapMinMax(tempConfig)
                  finalConfig == LimitCount(swapped)
              IN  IF swapped.count <= 0
                    THEN /\ rngAlert' = InvalidCountAlert
                         /\ rngEvent' = "save_rejected"
                         /\ UNCHANGED <<rngConfig, showSettings>>
                    ELSE IF ~finalConfig.allowDuplicates
                              /\ finalConfig.count > Span(finalConfig)
                           THEN /\ rngAlert' = CountExceedsAlert
                                /\ rngEvent' = "save_rejected"
                                /\ UNCHANGED <<rngConfig, showSettings>>
                           ELSE /\ rngConfig' = UpdateRngConfig(finalConfig)
                                /\ showSettings' = FALSE
                                /\ rngAlert' = IF finalConfig # swapped THEN CountLimitedAlert
                                               ELSE IF swapped # tempConfig THEN SwappedAlert
                                               ELSE rngAlert
                                /\ rngEvent' = "settings_saved"
    /\ UNCHANGED <<tempConfig, isGenerating, rngCurrentResult, genClosure, timerPending>>
    /\ UNCHANGED <<loopVars, nonRngVars>>

\* The timer fires and the callback runs to its end: results drawn,
\* setCurrentResult(results), updateRngConfig({...rngConfig, lastResults})
\* with the captured rngConfig, setIsGenerating(false).
GenerationCallback ==
    /\ timerPending
    /\ timerPending' = FALSE
    /\ \E drawn \in PossibleResults(genClosure) :
          /\ rngCurrentResult' = drawn
          /\ rngConfig' = UpdateRngConfig([genClosure EXCEPT !.lastResults = drawn])
    /\ isGenerating' = FALSE
    /\ rngEvent' = "generated"
    /\ UNCHANGED <<tempConfig, showSettings, genClosure, rngAlert, rngSteps>>
    /\ UNCHANGED <<loopVars, nonRngVars>>

\* The user dismisses the alert.
DismissRngAlert ==
    /\ rngAlert # NoAlert
    /\ rngAlert' = NoAlert
    /\ rngEvent' = "alert_dismissed"
    /\ UNCHANGED <<rngConfig, tempConfig, showSettings, isGenerating,
                   rngCurrentResult, genClosure, timerPending, rngSteps>>
    /\ UNCHANGED <<loopVars, nonRngVars>>

RngSpecInit ==
    /\ SpinScreenIdle
    /\ PickIdle
    /\ ToolsIdle

\* Saves and generation requests are counted up to MaxRngSteps, and only
\* configurations of up to MaxCount numbers are generated.
RngNext ==
    \/ OpenSettings
    \/ CloseSettings
    \/ UpdateTempConfig
    \/ (rngSteps < MaxRngSteps /\ SaveSettings)
    \/ (rngSteps < MaxRngSteps /\ rngConfig.count <= MaxCount /\ GenerateNumbers)
    \/ GenerationCallback
    \/ DismissRngAlert

RngSpec == RngSpecInit /\ [][RngNext]_vars

----------------------------------------------------------------------------
\* The coin screen

MaxFlips == 3

nonCoinVars == <<screenVars, pickVars, oddsVars, rngVars, loopVars, appVars, editorVars>>

\* The side as stored: isHeads ? 'heads' : 'tails'
SideOf(isHeads) == IF isHeads THEN "heads" ELSE "tails"

\* newStats built without `...coinStats`: only the side that came up is kept
StatsWithoutSpread(stats, isHeads) ==
    IF isHeads
      THEN [heads |-> stats.heads + 1, tails |-> 0, lastResult |-> "heads"]
      ELSE [heads |-> 0, tails |-> stats.tails + 1, lastResult |-> "tails"]

\* newStats = {...coinStats, [side]: coinStats[side] + 1, lastResult: side}
NewStats(stats, isHeads) ==
    IF isHeads
      THEN [stats EXCEPT !.heads = stats.heads + 1, !.lastResult = "heads"]
      ELSE [stats EXCEPT !.tails = stats.tails + 1, !.lastResult = "tails"]

\* The JS thread runs what was handed to it in order: while a
\* handleFlipComplete is waiting there, no later press is handled before it.
JsIdle == flipAnim.phase # "queued"

\* flipCoin while isFlipping: returns at once.
FlipCoinIgnored ==
    /\ JsIdle
    /\ ~coinAlert
    /\ isFlipping
    /\ coinEvent' = "flip_ignored"
    /\ UNCHANGED <<coinStats, isFlipping, currentSide, flipAnim, coinAlert, flipsStarted>>
    /\ UNCHANGED nonCoinVars

\* flipCoin accepted: the side is drawn and the withTiming animation started;
\* its callback holds this render's handleFlipComplete, and so this render's
\* coinStats.
FlipCoinStarted ==
    /\ JsIdle
    /\ ~coinAlert
    /\ ~isFlipping
    /\ isFlipping' = TRUE
    /\ \E willBeHeads \in BOOLEAN :
          flipAnim' = [phase |-> "running", willBeHeads |-> willBeHeads,
                       coinStats |-> coinStats]
    /\ flipsStarted' = flipsStarted + 1
    /\ coinEvent' = "flip_started"
    /\ UNCHANGED <<coinStats, currentSide, coinAlert>>
    /\ UNCHANGED nonCoinVars

\* UI thread: the animation reaches its end, the callback runs with
\* finished = true and hands handleFlipComplete(willBeHeads) to the JS thread.
\* An assignment to flipRotation made on the JS thread and not yet applied
\* on the UI thread does not prevent it.
FlipAnimationFinishes ==
    /\ flipAnim.phase \in {"running", "cancelling"}
    /\ flipAnim' = [flipAnim EXCEPT !.phase = "queued"]
    /\ coinEvent' = "animation_finished"
    /\ UNCHANGED <<coinStats, isFlipping, currentSide, coinAlert, flipsStarted>>
    /\ UNCHANGED nonCoinVars

\* JS thread: handleFlipComplete(isHeads)
HandleFlipComplete ==
    /\ flipAnim.phase = "queued"
    /\ currentSide' = SideOf(flipAnim.willBeHeads)
    /\ isFlipping' = FALSE
    /\ coinStats' = NewStats(flipAnim.coinStats, flipAnim.willBeHeads)
    /\ flipAnim' = [flipAnim EXCEPT !.phase = "none"]
    /\ coinEvent' = "flip_completed"
    /\ UNCHANGED <<coinAlert, flipsStarted>>
    /\ UNCHANGED nonCoinVars

\* resetStats: the confirmation dialog opens.
ResetStats ==
    /\ JsIdle
    /\ ~coinAlert
    /\ coinAlert' = TRUE
    /\ coinEvent' = "reset_asked"
    /\ UNCHANGED <<coinStats, isFlipping, currentSide, flipAnim, flipsStarted>>
    /\ UNCHANGED nonCoinVars

\* The dialog's Cancel button
ResetCancelled ==
    /\ JsIdle
    /\ coinAlert
    /\ coinAlert' = FALSE
    /\ coinEvent' = "reset_cancelled"
    /\ UNCHANGED <<coinStats, isFlipping, currentSide, flipAnim, flipsStarted>>
    /\ UNCHANGED nonCoinVars

\* The dialog's Reset button (JS thread): the statistics are zeroed and
\* flipRotation.value = 0 is sent to the UI thread, where it will cancel a
\* running animation.
ResetConfirmed ==
    /\ JsIdle
    /\ coinAlert
    /\ coinAlert' = FALSE
    /\ coinStats' = DefaultCoinStats
    /\ currentSide' = "heads"
    /\ flipAnim' = IF flipAnim.phase = "running"
                     THEN [flipAnim EXCEPT !.phase = "cancelling"]
                     ELSE flipAnim
    /\ coinEvent' = "stats_reset"
    /\ UNCHANGED <<isFlipping, flipsStarted>>
    /\ UNCHANGED nonCoinVars

\* UI thread: the assignment flipRotation.value = 0 is applied while the
\* animation is still running; the animation is cancelled and its callback
\* runs with finished = false, which does nothing.
ApplyRotationReset ==
    /\ flipAnim.phase = "cancelling"
    /\ flipAnim' = [flipAnim EXCEPT !.phase = "none"]
    /\ coinEvent' = "animation_cancelled"
    /\ UNCHANGED <<coinStats, isFlipping, currentSide, coinAlert, flipsStarted>>
    /\ UNCHANGED nonCoinVars

CoinSpecInit ==
    /\ SpinScreenIdle
    /\ PickIdle
    /\ ToolsIdle

CoinNext ==
    \/ FlipCoinIgnored
    \/ (flipsStarted < MaxFlips /\ FlipCoinStarted)
    \/ FlipAnimationFinishes
    \/ HandleFlipComplete
    \/ ResetStats
    \/ ResetCancelled
    \/ ResetConfirmed
    \/ ApplyRotationReset

CoinSpec == CoinSpecInit /\ [][CoinNext]_vars

\* A running animation reaches its end unless it is cancelled, a
\* handleFlipComplete handed to the JS thread is run, and an assignment sent
\* to the UI thread is applied.
LiveCoinSpec ==
    /\ CoinSpecInit
    /\ [][CoinNext]_vars
    /\ WF_vars(FlipAnimationFinishes)
    /\ WF_vars(HandleFlipComplete)
    /\ WF_vars(ApplyRotationReset)

----------------------------------------------------------------------------
\* The wheel list and the stacked screens
\*
\* The index tab, the my-wheels screen, the details screen and the edit screen
\* are routes of one Stack (_layout.js 11-19): a pushed screen leaves the ones
\* under it mounted, with their animations running.  The spin records are
\* told apart by the number of the spin; which option won is left to Spec.

MaxAppSpins == 2
MaxWheelSaves == 1

\* History lengths found in storage at start: none, or one short of the cap
StoredHistoryLengths == {0, HistoryCap - 1}

nonAppVars == <<screenVars, pickVars, oddsVars, rngVars, loopVars, coinVars, editorVars>>

Top == stack[Len(stack)]

Mounted(name) == \E i \in DOMAIN stack : stack[i] = name

\* Every mounted screen has re-rendered since the last state change
AllRendered == rendered = Committed

\* The record handed to addSpinResult
SpinResult(c) == [id |-> c.id, screen |-> c.screen]

\* onSpinEnd of the closure c made by spinWheel: addSpinResult prepends to
\* the spinResults of the render that made c; on the details screen
\* updateWheel({...wheel, updatedAt}) maps over the wheels of that render and
\* writes that render's wheel.  The effect on `wheels` then restores missing
\* presets.
OnSpinEnd(c) ==
    /\ ctxSpinResults' = AddSpinResult(SpinResult(c), c.spinResults)
    /\ completedSpins' = <<SpinResult(c)>> \o completedSpins
    /\ IF c.screen = "details"
         THEN /\ clock' = clock + 1
              /\ wheels' = ensurePresetWheels(
                               updateWheel([c.wheel EXCEPT !.updatedAt = clock + 1],
                                           c.wheels))
         ELSE UNCHANGED <<clock, wheels>>

\* spinWheel of screen s, as the handler of the screen's last render.
\* `if (!wheel || isSpinning) return` reads that render's isSpinning.
\* Otherwise setIsSpinning(true) and Animated.timing(rotationAnim).start:
\* starting an animation on a value stops the one running on it, whose start
\* callback then runs its onSpinEnd (setIsSpinning(false) is the last write).
PressSpin(s) ==
    /\ Top = s
    /\ IF rendered[s].isSpinning
         THEN /\ appEvent' = [kind |-> "spin_ignored", id |-> ""]
              /\ UNCHANGED <<wheels, ctxSpinResults, spinning, running,
                             completedSpins, clock, appSpins>>
         ELSE /\ appSpins < MaxAppSpins
              /\ appSpins' = appSpins + 1
              /\ running' = [running EXCEPT ![s] =
                    [id |-> appSpins + 1,
                     screen |-> s,
                     spinResults |-> rendered[s].spinResults,
                     wheels |-> IF s = "details" THEN rendered[s].wheels ELSE <<>>,
                     wheel |-> IF s = "details"
                                 THEN FindWheel(rendered[s].wheels, detailsId)
                                 ELSE PresetWheel("")]]
              /\ IF running[s] = NoSpin
                   THEN /\ spinning' = [spinning EXCEPT ![s] = TRUE]
                        /\ appEvent' = [kind |-> "spin_started", id |-> ""]
                        /\ UNCHANGED <<wheels, ctxSpinResults, completedSpins, clock>>
                   ELSE /\ OnSpinEnd(running[s])
                        /\ spinning' = [spinning EXCEPT ![s] = FALSE]
                        /\ appEvent' = [kind |-> "spin_restarted", id |-> ""]
    /\ UNCHANGED <<currentWheelId, stack, detailsId, rendered, wheelSaves>>
    /\ UNCHANGED nonAppVars

\* A press handled after the screen has re-rendered
PressSpinRendered(s) == AllRendered /\ PressSpin(s)

\* A press handled before the screen has re-rendered
PressSpinBeforeRender(s) == ~AllRendered /\ PressSpin(s)

\* React commits the pending state: the handlers are replaced by those of
\* the new render.
Render ==
    /\ ~AllRendered
    /\ rendered' = Committed
    /\ appEvent' = [kind |-> "rendered", id |-> ""]
    /\ UNCHANGED <<wheels, currentWheelId, ctxSpinResults, stack, detailsId,
                   spinning, running, completedSpins, clock, appSpins, wheelSaves>>
    /\ UNCHANGED nonAppVars

\* The animation of screen s runs to its end: its start callback calls
\* onSpinEnd, and the screens re-render.
SpinAnimationEnds(s) ==
    /\ AllRendered
    /\ running[s] # NoSpin
    /\ OnSpinEnd(running[s])
    /\ spinning' = [spinning EXCEPT ![s] = FALSE]
    /\ running' = [running EXCEPT ![s] = NoSpin]
    /\ appEvent' = [kind |-> IF s = "details" THEN "details_spin_ended"
                                              ELSE "index_spin_ended",
                    id |-> running[s].wheel.id]
    /\ UNCHANGED <<currentWheelId, stack, detailsId, appSpins, wheelSaves>>
    /\ rendered' = Snapshot(spinning', ctxSpinResults', wheels')
    /\ UNCHANGED nonAppVars

\* navigateToMyWheels: router.push('/my-wheels')
NavigateToMyWheels ==
    /\ AllRendered
    /\ Top = "index"
    /\ stack' = Append(stack, "my-wheels")
    /\ appEvent' = [kind |-> "navigated", id |-> ""]
    /\ UNCHANGED <<wheels, currentWheelId, ctxSpinResults, detailsId, spinning,
                   rendered, running, completedSpins, clock, appSpins, wheelSaves>>
    /\ UNCHANGED nonAppVars

\* The route details/[id] is opened on a wheel of the list.
OpenDetails(id) ==
    /\ AllRendered
    /\ ~Mounted("details")
    /\ Top \in {"index", "my-wheels"}
    /\ id \in WheelIds(wheels)
    /\ stack' = Append(stack, "details")
    /\ detailsId' = id
    /\ appEvent' = [kind |-> "details_opened", id |-> id]
    /\ UNCHANGED <<wheels, currentWheelId, ctxSpinResults, spinning, rendered,
                   running, completedSpins, clock, appSpins, wheelSaves>>
    /\ UNCHANGED nonAppVars

\* handleEdit of the details screen: router.push(`/edit/${wheel.id}`)
HandleEdit ==
    /\ AllRendered
    /\ Top = "details"
    /\ stack' = Append(stack, "edit")
    /\ appEvent' = [kind |-> "edit_opened", id |-> detailsId]
    /\ UNCHANGED <<wheels, currentWheelId, ctxSpinResults, detailsId, spinning,
                   rendered, running, completedSpins, clock, appSpins, wheelSaves>>
    /\ UNCHANGED nonAppVars

\* handleSubmit of the edit screen with a valid wheel:
\* updateWheel({...originalWheel, name, options, updatedAt}).
HandleSubmit ==
    /\ AllRendered
    /\ Top = "edit"
    /\ wheelSaves < MaxWheelSaves
    /\ wheelSaves' = wheelSaves + 1
    /\ clock' = clock + 1
    /\ wheels' = ensurePresetWheels(
                     updateWheel([FindWheel(wheels, detailsId) EXCEPT
                                     !.rev = @ + 1, !.updatedAt = clock + 1],
                                 wheels))
    /\ appEvent' = [kind |-> "wheel_updated", id |-> detailsId]
    /\ UNCHANGED <<currentWheelId, ctxSpinResults, stack, detailsId, spinning,
                   running, completedSpins, appSpins>>
    /\ rendered' = Snapshot(spinning', ctxSpinResults', wheels')
    /\ UNCHANGED nonAppVars

\* handleDuplicate of the my-wheels screen: addWheel({...wheel, id, updatedAt})
HandleDuplicate(wheel) ==
    /\ AllRendered
    /\ Top = "my-wheels"
    /\ wheelSaves < MaxWheelSaves
    /\ wheelSaves' = wheelSaves + 1
    /\ clock' = clock + 1
    /\ \E id \in UserWheelIds \ WheelIds(wheels) :
          /\ wheels' = ensurePresetWheels(
                           addWheel([wheel EXCEPT !.id = id, !.updatedAt = clock + 1],
                                    wheels))
          /\ appEvent' = [kind |-> "wheel_added", id |-> id]
    /\ UNCHANGED <<currentWheelId, ctxSpinResults, stack, detailsId, spinning,
                   running, completedSpins, appSpins>>
    /\ rendered' = Snapshot(spinning', ctxSpinResults', wheels')
    /\ UNCHANGED nonAppVars

\* handleDelete of the my-wheels screen, confirmed: deleteWheel(wheel.id),
\* then the effect on `wheels`.
HandleDelete(wheelId) ==
    /\ AllRendered
    /\ Top = "my-wheels"
    /\ wheelSaves < MaxWheelSaves
    /\ wheelSaves' = wheelSaves + 1
    /\ currentWheelId' = IF wheelId = currentWheelId THEN DefaultWheelId
                                                     ELSE currentWheelId
    /\ wheels' = ensurePresetWheels(deleteWheel(wheelId, wheels))
    /\ appEvent' = [kind |-> "wheel_deleted", id |-> wheelId]
    /\ UNCHANGED <<ctxSpinResults, stack, detailsId, spinning, running,
                   completedSpins, clock, appSpins>>
    /\ rendered' = Snapshot(spinning', ctxSpinResults', wheels')
    /\ UNCHANGED nonAppVars

\* handleWheelPress of the my-wheels screen: setCurrentWheel(wheel.id),
\* router.navigate('/(tabs)')
HandleWheelPress(wheelId) ==
    /\ AllRendered
    /\ Top = "my-wheels"
    /\ wheelId # currentWheelId
    /\ currentWheelId' = wheelId
    /\ stack' = <<"index">>
    /\ appEvent' = [kind |-> "wheel_chosen", id |-> wheelId]
    /\ UNCHANGED <<wheels, ctxSpinResults, detailsId, spinning, rendered, running,
                   completedSpins, clock, appSpins, wheelSaves>>
    /\ UNCHANGED nonAppVars

\* router.back().  The details screen is left only at rest; unmounted, it
\* loses its state.
Back ==
    /\ AllRendered
    /\ Len(stack) > 1
    /\ Top = "details" => running["details"] = NoSpin
    /\ stack' = SubSeq(stack, 1, Len(stack) - 1)
    /\ detailsId' = IF Top = "details" THEN "" ELSE detailsId
    /\ spinning' = IF Top = "details" THEN [spinning EXCEPT !["details"] = FALSE]
                                      ELSE spinning
    /\ appEvent' = [kind |-> "back", id |-> ""]
    /\ UNCHANGED <<wheels, currentWheelId, ctxSpinResults, running, completedSpins,
                   clock, appSpins, wheelSaves>>
    /\ rendered' = Snapshot(spinning', ctxSpinResults', wheels')
    /\ UNCHANGED nonAppVars

AppSpecInit ==
    /\ SpinScreenIdle
    /\ PickIdle
    /\ OddsIdle
    /\ rngConfig = DefaultRngConfig
    /\ RngMounted
    /\ LoopIdle
    /\ CoinMounted
    /\ \E n \in StoredHistoryLengths : AppMounted(n)
    /\ EditorsClosed

AppNext ==
    \/ \E s \in SpinScreens : PressSpinRendered(s)
    \/ Render
    \/ \E s \in SpinScreens : SpinAnimationEnds(s)
    \/ NavigateToMyWheels
    \/ \E id \in WheelIds(wheels) : OpenDetails(id)
    \/ HandleEdit
    \/ HandleSubmit
    \/ \E i \in DOMAIN wheels : HandleDuplicate(wheels[i])
    \/ \E id \in WheelIds(wheels) : HandleDelete(id)
    \/ \E id \in WheelIds(wheels) : HandleWheelPress(id)
    \/ Back

AppSpec == AppSpecInit /\ [][AppNext]_vars

\* AppSpec, and presses that reach spinWheel before the screen has
\* re-rendered with isSpinning = true.
StalePressNext ==
    \/ AppNext
    \/ \E s \in SpinScreens : PressSpinBeforeRender(s)

StalePressSpec == AppSpecInit /\ [][StalePressNext]_vars

----------------------------------------------------------------------------
\* The option editors
\*
\* The create screen (create.js 79-177), the edit screen (part_001 32-128) and
\* the edit bottom sheet (EditWheelBottomSheet.js 44-287, 308-328, 514-562)
\* each edit a list of options in their own state and hand the wheel to
\* addWheel or updateWheel on save.  The wheel's name is taken as typed, so
\* the name check of the save handlers passes.

MaxEditorSteps == 8
MaxDraftOptions == 3
MaxClockTicks == 1

\* if (options.length >= 20)
MaxOptionsPerWheel == 20

\* Date.now() when the editors are first used
ClockStart == 1000

\* Labels typed into an option's TextInput
TypedLabels == {" ", "Tea"}

\* batchText split at newlines and commas
BatchPieces == {<<" ">>, <<"Milk", "Rice">>, <<"Milk", " ", "Milk">>}

\* Rows whose weight buttons are pressed
AdjustedRows == {1}

nonEditorVars == <<screenVars, pickVars, oddsVars, rngVars, loopVars, coinVars, appVars>>

\* String.prototype.trim on the labels of the model
Trim(label) == IF label = " " THEN "" ELSE label

\* Date.now()
DateNow == ClockStart + msClock

OptionIds(opts) == {opts[i].id : i \in DOMAIN opts}

\* options.find(opt => opt.id === optionId): the first match
FindOption(opts, optionId) ==
    opts[CHOOSE i \in DOMAIN opts :
            /\ opts[i].id = optionId
            /\ \A j \in DOMAIN opts : opts[j].id = optionId => i <= j]

\* updateOption: options.map(opt => opt.id === optionId ? {...opt, [field]: value} : opt)
updateOption(opts, optionId, field, value) ==
    [i \in DOMAIN opts |->
        IF opts[i].id = optionId THEN [opts[i] EXCEPT ![field] = value] ELSE opts[i]]

\* options.filter(opt => opt.id !== optionId)
WithoutOption(opts, optionId) == SelectSeq(opts, LAMBDA opt : opt.id # optionId)

\* options.filter(opt => opt.label.trim())
Labelled(opts) == SelectSeq(opts, LAMBDA opt : Trim(opt.label) # "")

\* validOptions: the labelled options, each with its label trimmed
ValidOptions(opts) ==
    [i \in DOMAIN Labelled(opts) |->
        [Labelled(opts)[i] EXCEPT !.label = Trim(Labelled(opts)[i].label)]]

\* validateWheel of the create and edit screens:
\* options.filter(opt => opt.enabled && opt.label.trim()).length >= 2
validateWheel(opts) ==
    Len(SelectSeq(opts, LAMBDA opt : opt.enabled /\ Trim(opt.label) # "")) >= 2

\* The check of the bottom sheet's handleSave: validOptions.length >= 2
SheetAccepts(opts) == Len(Labelled(opts)) >= 2

\* handleBatchAdd's pipeline on the pieces of batchText: trim, drop the
\* empty ones, keep the first of equal ones
BatchLabels(pieces) ==
    LET trimmed == [i \in DOMAIN pieces |-> Trim(pieces[i])]
        kept == {i \in DOMAIN trimmed :
                    /\ trimmed[i] # ""
                    /\ \A j \in DOMAIN trimmed : trimmed[j] = trimmed[i] => i <= j}
        RECURSIVE Collect(_)
        Collect(i) == IF i > Len(trimmed) THEN <<>>
                      ELSE (IF i \in kept THEN <<trimmed[i]>> ELSE <<>>) \o Collect(i + 1)
    IN  Collect(1)

\* The create screen is opened.
OpenCreate ==
    /\ editorKind = "none"
    /\ editorKind' = "create"
    /\ draftOptions' = BlankPair
    /\ editorEvent' = "create_opened"
    /\ UNCHANGED <<storedOptions, msClock>>
    /\ UNCHANGED nonEditorVars

\* The edit screen is opened on the stored wheel: setOptions([...wheel.options])
OpenEdit ==
    /\ editorKind = "none"
    /\ editorKind' = "edit"
    /\ draftOptions' = storedOptions
    /\ editorEvent' = "edit_opened"
    /\ UNCHANGED <<storedOptions, msClock>>
    /\ UNCHANGED nonEditorVars

\* The bottom sheet becomes visible for wheelId 'new'.
OpenSheetNew ==
    /\ editorKind = "none"
    /\ editorKind' = "sheet"
    /\ draftOptions' = BlankPair
    /\ editorEvent' = "sheet_opened_new"
    /\ UNCHANGED <<storedOptions, msClock>>
    /\ UNCHANGED nonEditorVars

\* The bottom sheet becomes visible for the stored wheel.
OpenSheet ==
    /\ editorKind = "none"
    /\ editorKind' = "sheet"
    /\ draftOptions' = storedOptions
    /\ editorEvent' = "sheet_opened"
    /\ UNCHANGED <<storedOptions, msClock>>
    /\ UNCHANGED nonEditorVars

\* addOption.  The create and edit screens refuse a 21st option; the
\* bottom sheet has no limit.  The id is Date.now().toString().
AddOption ==
    /\ editorKind # "none"
    /\ Len(draftOptions) < MaxDraftOptions
    /\ IF editorKind \in {"create", "edit"} /\ Len(draftOptions) >= MaxOptionsPerWheel
         THEN /\ editorEvent' = "add_refused"
              /\ UNCHANGED draftOptions
         ELSE /\ draftOptions' = Append(draftOptions, NewOption(DateNow))
              /\ editorEvent' = "option_added"
    /\ UNCHANGED <<editorKind, storedOptions, msClock>>
    /\ UNCHANGED nonEditorVars

\* handleBatchAdd of the bottom sheet: ids Date.now() + index
HandleBatchAdd(pieces) ==
    /\ editorKind = "sheet"
    /\ Len(draftOptions) + Len(BatchLabels(pieces)) <= MaxDraftOptions
    /\ IF BatchLabels(pieces) = <<>>
         THEN /\ editorEvent' = "batch_empty"
              /\ UNCHANGED draftOptions
         ELSE /\ draftOptions' = draftOptions \o
                    [index \in DOMAIN BatchLabels(pieces) |->
                        [NewOption(DateNow + (index - 1)) EXCEPT
                            !.label = BatchLabels(pieces)[index]]]
              /\ editorEvent' = "batch_added"
    /\ UNCHANGED <<editorKind, storedOptions, msClock>>
    /\ UNCHANGED nonEditorVars

\* removeOption (on the bottom sheet with the deletion confirmed)
RemoveOption(optionId) ==
    /\ editorKind # "none"
    /\ optionId \in OptionIds(draftOptions)
    /\ IF Len(draftOptions) <= 2
         THEN /\ editorEvent' = "remove_refused"
              /\ UNCHANGED draftOptions
         ELSE /\ draftOptions' = WithoutOption(draftOptions, optionId)
              /\ editorEvent' = "option_removed"
    /\ UNCHANGED <<editorKind, storedOptions, msClock>>
    /\ UNCHANGED nonEditorVars

\* onChangeText of an option's label
ChangeLabel(optionId, text) ==
    /\ editorKind # "none"
    /\ optionId \in OptionIds(draftOptions)
    /\ draftOptions' = updateOption(draftOptions, optionId, "label", text)
    /\ draftOptions' # draftOptions
    /\ editorEvent' = "label_changed"
    /\ UNCHANGED <<editorKind, storedOptions, msClock>>
    /\ UNCHANGED nonEditorVars

\* onValueChange of an option's Switch (create and edit screens)
ToggleEnabled(row) ==
    /\ editorKind \in {"create", "edit"}
    /\ row \in DOMAIN draftOptions
    /\ draftOptions' = updateOption(draftOptions, draftOptions[row].id, "enabled",
                                    ~draftOptions[row].enabled)
    /\ editorEvent' = "enabled_changed"
    /\ UNCHANGED <<editorKind, storedOptions, msClock>>
    /\ UNCHANGED nonEditorVars

\* loadPreset of the create screen with the preset 'Yes or No': ids index + 1
LoadPreset ==
    /\ editorKind = "create"
    /\ draftOptions' = [index \in DOMAIN YesNoOptions |->
                           [YesNoOptions[index] EXCEPT !.id = index]]
    /\ draftOptions' # draftOptions
    /\ editorEvent' = "preset_loaded"
    /\ UNCHANGED <<editorKind, storedOptions, msClock>>
    /\ UNCHANGED nonEditorVars

\* handleSubmit of the create and edit screens: validateWheel, then the
\* labelled options are stored and the screen is left.
SubmitOptions ==
    /\ editorKind \in {"create", "edit"}
    /\ IF validateWheel(draftOptions)
         THEN /\ storedOptions' = ValidOptions(draftOptions)
              /\ editorKind' = "none"
              /\ draftOptions' = <<>>
              /\ editorEvent' = "submitted"
         ELSE /\ editorEvent' = "insufficient_options"
              /\ UNCHANGED <<storedOptions, editorKind, draftOptions>>
    /\ UNCHANGED msClock
    /\ UNCHANGED nonEditorVars

\* handleSave of the bottom sheet: at least 2 labelled options, then they
\* are stored and the sheet closes.
HandleSave ==
    /\ editorKind = "sheet"
    /\ IF SheetAccepts(draftOptions)
         THEN /\ storedOptions' = ValidOptions(draftOptions)
              /\ editorKind' = "none"
              /\ draftOptions' = <<>>
              /\ editorEvent' = "saved"
         ELSE /\ editorEvent' = "insufficient_options"
              /\ UNCHANGED <<storedOptions, editorKind, draftOptions>>
    /\ UNCHANGED msClock
    /\ UNCHANGED nonEditorVars

\* The editor is left without saving.
CloseEditor ==
    /\ editorKind # "none"
    /\ editorKind' = "none"
    /\ draftOptions' = <<>>
    /\ editorEvent' = "closed"
    /\ UNCHANGED <<storedOptions, msClock>>
    /\ UNCHANGED nonEditorVars

\* A millisecond goes by.
Tick ==
    /\ msClock < MaxClockTicks
    /\ msClock' = msClock + 1
    /\ editorEvent' = "tick"
    /\ UNCHANGED <<editorKind, draftOptions, storedOptions>>
    /\ UNCHANGED nonEditorVars

\* Math.max(1, option.weight - 10)
ScreenWeightDown(weight) == IF weight - 10 < 1 THEN 1 ELSE weight - 10

\* Math.min(100, option.weight + 10)
ScreenWeightUp(weight) == IF weight + 10 > 100 THEN 100 ELSE weight + 10

\* The minus button of the create and edit screens
PressScreenMinus(row) ==
    /\ editorKind \in {"create", "edit"}
    /\ row \in DOMAIN draftOptions
    /\ draftOptions' = updateOption(draftOptions, draftOptions[row].id, "weight",
                                    ScreenWeightDown(draftOptions[row].weight))
    /\ editorEvent' = "weight_down"
    /\ UNCHANGED <<editorKind, storedOptions, msClock>>
    /\ UNCHANGED nonEditorVars

\* The plus button of the create and edit screens
PressScreenPlus(row) ==
    /\ editorKind \in {"create", "edit"}
    /\ row \in DOMAIN draftOptions
    /\ draftOptions' = updateOption(draftOptions, draftOptions[row].id, "weight",
                                    ScreenWeightUp(draftOptions[row].weight))
    /\ editorEvent' = "weight_up"
    /\ UNCHANGED <<editorKind, storedOptions, msClock>>
    /\ UNCHANGED nonEditorVars

\* option.weight > 1
SheetMayLower(weight) == weight > 1

\* option.weight < 100
SheetMayRaise(weight) == weight < 100

\* The minus button of the bottom sheet's weight adjuster, opened on the
\* option of a row: if (option && option.weight > 1) weight - 10
PressSheetMinus(row) ==
    /\ editorKind = "sheet"
    /\ row \in DOMAIN draftOptions
    /\ LET option == FindOption(draftOptions, draftOptions[row].id)
       IN  IF SheetMayLower(option.weight)
             THEN draftOptions' = updateOption(draftOptions, option.id, "weight",
                                               option.weight - 10)
             ELSE UNCHANGED draftOptions
    /\ editorEvent' = "weight_down"
    /\ UNCHANGED <<editorKind, storedOptions, msClock>>
    /\ UNCHANGED nonEditorVars

\* The plus button of the adjuster: if (option && option.weight < 100) weight + 10
PressSheetPlus(row) ==
    /\ editorKind = "sheet"
    /\ row \in DOMAIN draftOptions
    /\ LET option == FindOption(draftOptions, draftOptions[row].id)
       IN  IF SheetMayRaise(option.weight)
             THEN draftOptions' = updateOption(draftOptions, option.id, "weight",
                                               option.weight + 10)
             ELSE UNCHANGED draftOptions
    /\ editorEvent' = "weight_up"
    /\ UNCHANGED <<editorKind, storedOptions, msClock>>
    /\ UNCHANGED nonEditorVars

\* 'Equalize Weights' of the bottom sheet: every weight 50
EqualizeWeights ==
    /\ editorKind = "sheet"
    /\ draftOptions' = [i \in DOMAIN draftOptions |->
                           [draftOptions[i] EXCEPT !.weight = DefaultWeight]]
    /\ draftOptions' # draftOptions
    /\ editorEvent' = "weights_equalized"
    /\ UNCHANGED <<editorKind, storedOptions, msClock>>
    /\ UNCHANGED nonEditorVars

EditorSpecInit ==
    /\ SpinScreenIdle
    /\ PickIdle
    /\ ToolsIdle

\* A handler call of the bounded run
Counted(Handler) ==
    /\ editorSteps < MaxEditorSteps
    /\ Handler
    /\ editorSteps' = editorSteps + 1

\* The editors with the weights left as they are
EditorNext ==
    \/ Counted(OpenCreate)
    \/ Counted(OpenEdit)
    \/ Counted(OpenSheetNew)
    \/ Counted(OpenSheet)
    \/ Counted(AddOption)
    \/ \E pieces \in BatchPieces : Counted(HandleBatchAdd(pieces))
    \/ \E optionId \in OptionIds(draftOptions) : Counted(RemoveOption(optionId))
    \/ \E optionId \in OptionIds(draftOptions), text \in TypedLabels :
          Counted(ChangeLabel(optionId, text))
    \/ \E row \in DOMAIN draftOptions : Counted(ToggleEnabled(row))
    \/ Counted(LoadPreset)
    \/ Counted(SubmitOptions)
    \/ Counted(HandleSave)
    \/ Counted(CloseEditor)
    \/ (Tick /\ UNCHANGED editorSteps)

EditorSpec == EditorSpecInit /\ [][EditorNext]_vars

\* The weight buttons of the editors, pressed on the stored wheel
WeightNext ==
    \/ (OpenEdit /\ UNCHANGED editorSteps)
    \/ (OpenSheet /\ UNCHANGED editorSteps)
    \/ \E row \in AdjustedRows : (PressScreenMinus(row) /\ UNCHANGED editorSteps)
    \/ \E row \in AdjustedRows : (PressScreenPlus(row) /\ UNCHANGED editorSteps)
    \/ \E row \in AdjustedRows : (PressSheetMinus(row) /\ UNCHANGED editorSteps)
    \/ \E row \in AdjustedRows : (PressSheetPlus(row) /\ UNCHANGED editorSteps)
    \/ (EqualizeWeights /\ UNCHANGED editorSteps)
    \/ (SubmitOptions /\ UNCHANGED editorSteps)
    \/ (HandleSave /\ UNCHANGED editorSteps)
    \/ (CloseEditor /\ UNCHANGED editorSteps)

WeightSpec == EditorSpecInit /\ [][WeightNext]_vars

----------------------------------------------------------------------------
\* Geometry used to state the claims

\* The pointer sits within |pointerBiasDeg| of its zero reference (12 o'clock).
PointerPositions == PointerBiasDeg..(-PointerBiasDeg)

\* Sector k of n, centred baseOffsetDeg + k*360/n clockwise of the reference
\* before the wheel turns, lies under the pointer once the wheel has turned
\* clockwise by angle (sector borders included; all terms multiplied by n).
CentredSectorUnderPointer(k, angle, n, baseOffsetDeg) ==
    /\ k \in 0..(n - 1)
    /\ \E p \in PointerPositions :
          (((p - baseOffsetDeg - angle) * n - FullTurn * k + (FullTurn \div 2))
              % (FullTurn * n)) \in 0..FullTurn

\* createWheelPath: sector k of n is drawn from k*360/n to (k+1)*360/n
\* clockwise of 12 o'clock; it lies under the pointer once the wheel has
\* turned clockwise by angle (borders included; terms multiplied by n).
DrawnSectorUnderPointer(k, angle, n) ==
    /\ k \in 0..(n - 1)
    /\ \E p \in PointerPositions :
          (((p - angle) * n) % (FullTurn * n)) \in (FullTurn * k)..(FullTurn * (k + 1))

Angles == 0..(FullTurn - 1)

\* The angles in [0, 360) that pickIndex(., n, 0) sends to index i
ArcOf(n, i) == {d \in Angles : pickIndex(d, n, 0) = i}

\* S is one circular run of consecutive angles
IsCircularArc(S) ==
    Cardinality({d \in S : ((d + 1) % FullTurn) \notin S}) <= 1

EnabledIds(wheel) ==
    {wheel.options[i].id : i \in {j \in DOMAIN wheel.options : wheel.options[j].enabled}}

EnabledLabels(wheel) ==
    {wheel.options[i].label : i \in {j \in DOMAIN wheel.options : wheel.options[j].enabled}}

----------------------------------------------------------------------------
\* Claims

\* C1: for every final angle and every n >= 1, pickIndex(angle, n, 0)
\* returns an index i with 0 <= i < n.
C1_IndexInRange ==
    (phase = "returned" /\ argBaseOffsetDeg = 0) => retIdx \in 0..(argN - 1)

\* C2: every accepted spin eventually ends: once isSpinning is true, the
\* spin-end handler eventually records a result and sets isSpinning false.
C2_SpinEventuallyEnds ==
    isSpinning ~> (~isSpinning /\ spinResults # <<>>)

\* C3: the winner declared and recorded by a spin is one of the options
\* that were enabled on the wheel when the spin was requested.
C3_WinnerWasEnabled ==
    [][spinResults' # spinResults =>
          /\ Head(spinResults').winnerOptionId \in EnabledIds(closure.wheel)
          /\ currentResult' \in ({Unknown} \cup EnabledLabels(closure.wheel))]_vars

C3_Witness ==
    /\ spinResults # <<>>
    /\ currentResult # Unknown
    /\ \E i \in DOMAIN closure.wheel.options : ~closure.wheel.options[i].enabled

C5_EmptyWheelSpinFails ==
    /\ [](animating => Len(closure.enabledOptions) # 0)
    /\ [][(/\ lastEvent' \in {"spin_ignored", "spin_rejected", "spin_started"}
           /\ \A i \in DOMAIN currentWheel.options : ~currentWheel.options[i].enabled)
          => UNCHANGED <<isSpinning, currentResult, rotation, spinResults, animating>>]_vars

C5_Witness ==
    /\ lastEvent = "spin_rejected"
    /\ \A i \in DOMAIN currentWheel.options : ~currentWheel.options[i].enabled
    /\ ~isSpinning
    /\ ~animating

\* C6: for every n >= 1, pickIndex maps the angles of [0, 360) onto exactly
\* the indices 0..n-1, each index being the image of one circular arc of
\* width 360/n (here: floor or ceiling of 360/n whole degrees).
C6_SectorsPartitionCircle ==
    phase = "returned" =>
        /\ \A d \in Angles : pickIndex(d, argN, 0) \in 0..(argN - 1)
        /\ \A i \in 0..(argN - 1) :
              /\ ArcOf(argN, i) # {}
              /\ IsCircularArc(ArcOf(argN, i))
              /\ Cardinality(ArcOf(argN, i)) * argN > FullTurn - argN
              /\ Cardinality(ArcOf(argN, i)) * argN < FullTurn + argN

\* C7: pickIndex(angle, n, baseOffset) is the index of the sector under the
\* fixed pointer after the wheel has turned clockwise by angle, sector k
\* being centred baseOffset + k*360/n clockwise of the pointer's reference.
C7_PicksSectorUnderPointer ==
    phase = "returned" =>
        CentredSectorUnderPointer(retIdx, argFinalDeg, argN, argBaseOffsetDeg)

\* C8: on the spin screens the declared winner is the option whose drawn
\* sector is under the 12 o'clock pointer at the final rotation.
C8_WinnerIsDrawnUnderPointer ==
    currentResult # Unknown =>
        \E k \in 1..Len(closure.enabledOptions) :
            /\ closure.enabledOptions[k].label = currentResult
            /\ DrawnSectorUnderPointer(k - 1, rotation, Len(closure.enabledOptions))

\* C9: whenever a spin result is declared or recorded, the wheel is resting
\* at the final rotation angle from which the winner was computed.
C9_ResultAtRestingAngle ==
    [][(spinResults' # spinResults \/ (currentResult' # currentResult /\ currentResult' # Unknown))
          => rotation' = closure.finalRotation]_vars

\* C10: pickIndex is periodic in the angle:
\* pickIndex(angle + 360*k, n, offset) = pickIndex(angle, n, offset).
C10_Periodic ==
    phase = "returned" => retIdxShifted = retIdx

C10_Witness ==
    /\ phase = "returned"
    /\ argK < 0
    /\ argFinalDeg + FullTurn * argK < -FullTurn
    /\ argN >= 2
    /\ retIdx >= 1
    /\ retIdxShifted = retIdx

\* C11: when the wheel has exactly one enabled option, every spin declares
\* that option the winner, at every final rotation angle: the index is 0 at
\* every angle, the spin end does not fail, and the option is the result
\* shown and recorded.
C11_SingleOptionAlwaysWins ==
    (closure.live /\ Len(closure.enabledOptions) = 1) =>
        /\ \A d \in Angles : pickIndex(d, Len(closure.enabledOptions), 0) = 0
        /\ animating \/ ~isSpinning
        /\ currentResult \in {Unknown, closure.enabledOptions[1].label}
        /\ ~animating =>
              /\ spinResults # <<>>
              /\ Head(spinResults).winnerOptionId = closure.enabledOptions[1].id

C11_Witness ==
    /\ closure.live
    /\ Len(closure.enabledOptions) = 1
    /\ Len(closure.wheel.options) >= 2
    /\ Norm(closure.finalRotation) = 200
    /\ rotation = closure.finalRotation
    /\ currentResult = closure.enabledOptions[1].label
    /\ Head(spinResults).winnerOptionId = closure.enabledOptions[1].id

\* C12: over the uniformly random stop angle, enabled option i wins with
\* probability weight[i] / (sum of the enabled weights): of the 360 whole
\* stop angles, the share at which option i wins is weight[i] / sum.
C12_WinsInProportionToWeight ==
    oddsPhase = "spun" =>
        LET enabledOptions == EnabledOptions(wheelA.options)
        IN  \A i \in 1..Len(enabledOptions) :
                Cardinality({d \in Angles :
                                SpinWinner(enabledOptions, d) = enabledOptions[i].id})
                    * SumWeights(enabledOptions)
                  = FullTurn * enabledOptions[i].weight

HasDuplicate(seq) == \E i, j \in DOMAIN seq : i # j /\ seq[i] = seq[j]

\* C14: every accepted generation produces exactly rngConfig.count integers,
\* each of them r with min <= r <= max.
C14_CountNumbersInRange ==
    /\ \A i \in DOMAIN genResults :
          genClosure.min <= genResults[i] /\ genResults[i] <= genClosure.max
    /\ rngEvent = "generated" =>
          /\ Len(rngCurrentResult) = genClosure.count
          /\ rngConfig.lastResults = rngCurrentResult
          /\ \A i \in DOMAIN rngCurrentResult :
                rngCurrentResult[i] \in genClosure.min..genClosure.max

\* Both bounds are produced: one generation returned min and max.
C14_Witness ==
    /\ rngEvent = "generated"
    /\ genClosure.min < genClosure.max
    /\ Len(rngCurrentResult) = genClosure.count
    /\ genClosure.min \in UsedNumbers(rngCurrentResult)
    /\ genClosure.max \in UsedNumbers(rngCurrentResult)

\* C15: with allowDuplicates false and count <= max - min + 1 the numbers of
\* one generation are pairwise distinct (with count = max - min + 1, a
\* permutation of min..max).
C15_NoDuplicatesWhenDisallowed ==
    (/\ rngEvent = "generated"
     /\ ~genClosure.allowDuplicates
     /\ genClosure.count <= Span(genClosure))
        => /\ ~HasDuplicate(rngCurrentResult)
           /\ genClosure.count = Span(genClosure)
                 => UsedNumbers(rngCurrentResult) = genClosure.min..genClosure.max

\* allowDuplicates false and count > max - min + 1
GenerationRejectedAsClaimed ==
    ~rngConfig.allowDuplicates /\ rngConfig.count > rngConfig.max - rngConfig.min + 1

\* C16: a generation request with allowDuplicates false and count above
\* max - min + 1 fails: the callback never runs for it, and the request
\* leaves currentResult, rngConfig (lastResults) and isGenerating unchanged.
C16_OversizedRequestFails ==
    /\ [](GenerationRejectedAsClaimed =>
             /\ ~isGenerating
             /\ ~timerPending
             /\ genPc = "idle"
             /\ genResults = <<>>
             /\ rngCurrentResult = rngConfig.lastResults)
    /\ [][(rngSteps' # rngSteps /\ GenerationRejectedAsClaimed)
             => UNCHANGED <<rngCurrentResult, rngConfig, isGenerating, timerPending>>]_vars

C16_Witness ==
    /\ rngEvent = "generate_rejected"
    /\ rngAlert = InvalidConfigurationAlert
    /\ ~rngConfig.allowDuplicates
    /\ rngConfig.count = 3
    /\ rngConfig.max - rngConfig.min + 1 = 2
    /\ ~isGenerating

\* C17: generation terminates: the retry loop makes at most RetryCap + 1
\* draws for one value, and every accepted generation ends with isGenerating
\* false and count results, whatever the random source returns.
C17_GenerationTerminates ==
    /\ [](attempts <= RetryCap)
    /\ isGenerating ~> (/\ ~isGenerating
                        /\ rngEvent = "generated"
                        /\ Len(rngCurrentResult) = genClosure.count)

\* The cap was what ended a retry loop: duplicates are off and the result
\* holds a value twice.
C17_Witness ==
    /\ rngEvent = "generated"
    /\ ~isGenerating
    /\ ~genClosure.allowDuplicates
    /\ genClosure.count = 2
    /\ HasDuplicate(rngCurrentResult)

\* C18: when the retry cap is hit in a duplicate-free generation and a used
\* value is emitted, the outcome is reported: an alert distinguishes it from
\* a normal generation.
C18_CapHitIsReported ==
    (/\ rngEvent = "generated"
     /\ ~genClosure.allowDuplicates
     /\ HasDuplicate(rngCurrentResult))
        => rngAlert # NoAlert

\* The configuration invariant of the claim
ValidStored(cfg) ==
    /\ cfg.min <= cfg.max
    /\ 1 <= cfg.count
    /\ cfg.count <= 20
    /\ cfg.allowDuplicates \/ cfg.count <= cfg.max - cfg.min + 1

\* C19: after any sequence of settings saves and generations from the
\* default configuration the stored rngConfig has min <= max,
\* 1 <= count <= 20 and, with allowDuplicates false, count <= max - min + 1;
\* a save that is refused leaves rngConfig unchanged, and a save that changes
\* rngConfig stores a configuration that satisfies the invariant.
C19_StoredConfigValid ==
    /\ [](ValidStored(rngConfig) /\ (timerPending => ValidStored(genClosure)))
    /\ [][(rngSteps' # rngSteps /\ showSettings /\ showSettings')
             => rngConfig' = rngConfig]_vars

\* A save of min 3, max 2 was stored exchanged, after a save with
\* duplicates off and count above the range had been refused.
C19_Witness ==
    /\ rngEvent = "settings_saved"
    /\ rngAlert = SwappedAlert
    /\ rngConfig.min = 2
    /\ rngConfig.max = 3
    /\ tempConfig.min = 3
    /\ tempConfig.max = 2
    /\ rngConfig.count = 2
    /\ rngSteps >= 2

\* C20: between explicit resets neither coinStats.heads nor coinStats.tails
\* decreases, and the statistics change only when a flip completes (or at a
\* confirmed reset, which zeroes them).
C20_CountersMonotonic ==
    [][coinStats' # coinStats =>
          \/ /\ coinAlert /\ ~coinAlert'
             /\ coinStats'.heads = 0
             /\ coinStats'.tails = 0
          \/ /\ isFlipping /\ ~isFlipping'
             /\ coinStats'.heads >= coinStats.heads
             /\ coinStats'.tails >= coinStats.tails
             /\ coinStats'.heads + coinStats'.tails > coinStats.heads + coinStats.tails]_vars

C20_Witness ==
    /\ coinEvent = "flip_completed"
    /\ coinStats.heads >= 1
    /\ coinStats.tails >= 2
    /\ coinStats.lastResult = "tails"
    /\ ~isFlipping

\* C25: a confirmed reset leaves heads = 0, tails = 0 and lastResult null,
\* and afterwards the statistics only move by a completing flip adding one
\* to the counts as they stand: a flip that was in progress when the reset
\* was confirmed does not bring back the counts from before the reset.
C25_ResetIsNotUndone ==
    [][coinStats' # coinStats =>
          \/ coinStats' = [heads |-> 0, tails |-> 0, lastResult |-> "null"]
          \/ /\ coinStats'.heads >= coinStats.heads
             /\ coinStats'.tails >= coinStats.tails
             /\ coinStats'.heads + coinStats'.tails
                   = coinStats.heads + coinStats.tails + 1]_vars

\* C26: every started coin flip eventually completes: once isFlipping is
\* true, handleFlipComplete eventually sets it back to false, whatever the
\* user does in between.
C26_FlipEventuallyCompletes ==
    isFlipping ~> ~isFlipping

\* C27: a settings change saved while a generation is pending is not lost:
\* when the pending generation completes, rngConfig keeps the stored min,
\* max, count and allowDuplicates, and lastResults holds the new numbers.
C27_SaveSurvivesPendingGeneration ==
    [][rngEvent' = "generated" /\ timerPending =>
          /\ rngConfig'.min = rngConfig.min
          /\ rngConfig'.max = rngConfig.max
          /\ rngConfig'.count = rngConfig.count
          /\ rngConfig'.allowDuplicates = rngConfig.allowDuplicates
          /\ rngConfig'.lastResults = rngCurrentResult']_vars

\* The first n entries of a sequence
Latest(seq, n) == SubSeq(seq, 1, IF Len(seq) > n THEN n ELSE Len(seq))

\* C21: whatever spins have completed on the mounted spin screens, the
\* history is the latest HistoryCap of them, newest first: at most
\* HistoryCap entries, and no completed spin among the latest HistoryCap is
\* missing.
C21_HistoryHoldsLatestSpins ==
    ctxSpinResults = Latest(completedSpins, HistoryCap)

\* C28: when a spin ends on the details screen, the wheel list keeps its
\* wheels in place and differs from the list before the spin ended in
\* nothing but the spun wheel's updatedAt.
C28_SpinEndTouchesOnlyUpdatedAt ==
    [][appEvent'.kind = "details_spin_ended" =>
          /\ Len(wheels') = Len(wheels)
          /\ \A i \in DOMAIN wheels :
                wheels'[i] = IF wheels[i].id = appEvent'.id
                               THEN [wheels[i] EXCEPT !.updatedAt = wheels'[i].updatedAt]
                               ELSE wheels[i]]_vars

\* C29: an animation running on a spin screen is never replaced by another
\* one: until its own end, no press starts a second animation, a press
\* handled before the screen has re-rendered included.
C29_NoSecondAnimation ==
    [][\A s \in SpinScreens :
          running[s] # NoSpin => running'[s] \in {running[s], NoSpin}]_vars

\* C30: once deleteWheel(id) and the effects it triggers are done, no wheel
\* of the list has that id, preset or not, and the other wheels are as they
\* were.
C30_DeletedWheelIsGone ==
    [][appEvent'.kind = "wheel_deleted" =>
          /\ appEvent'.id \notin WheelIds(wheels')
          /\ wheels' = deleteWheel(appEvent'.id, wheels)]_vars

\* C22: every wheel stored by the create screen, the edit screen or the
\* bottom sheet has at least 2 options, and at least 2 of them are enabled
\* and carry a label that is not empty once trimmed.
C22_StoredWheelCanBeDrawn ==
    /\ Len(storedOptions) >= 2
    /\ Len(SelectSeq(storedOptions,
                     LAMBDA opt : opt.enabled /\ Trim(opt.label) # "")) >= 2

\* C23: whatever weight buttons are pressed on the edit screen and in the
\* bottom sheet's adjuster, in any order from the default 50, every weight
\* of the edited and of the stored options is an integer within 1..100.
C23_WeightsWithinRange ==
    /\ \A i \in DOMAIN draftOptions : draftOptions[i].weight \in 1..100
    /\ \A i \in DOMAIN storedOptions : storedOptions[i].weight \in 1..100

\* C24: in an editor's option list no two options have the same id,
\* whatever options were added (one by one or in a batch), removed or loaded
\* from a preset, also when the clock does not advance between two actions.
C24_OptionIdsDistinct ==
    \A i, j \in DOMAIN draftOptions :
        i # j => draftOptions[i].id # draftOptions[j].id
====
